---- MODULE Spec2Model ----
(***************************************************************************)
(* Model of the document collaboration session subsystem of colab-tool:    *)
(* the socket gateway of the server (src/socket.ts) with its presence      *)
(* registry activeDocuments, the socket.io rooms it joins and leaves, and  *)
(* the per-connection FIFO transport that carries the relayed events.      *)
(***************************************************************************)
EXTENDS Integers, Sequences, FiniteSets, TLC

\* ------------------------------------------------------------------ bounds
\* Number of gateway messages (join / leave / operation / cursor) handled.
MaxEvents == 3

\* ------------------------------------------------------------- input sets
Conns == {"c1", "c2"}
Users == {"u1", "u2"}
Docs == {"d1", "d2"}
Positions == {2}

\* The two client platforms, each with its own EditorContext.
Platforms == {"web", "mobile"}

\* null
Null == "null"

NoDoc == "-"
NoUser == "-"

\* TextOperation values sent by clients (src/socket.ts:5-13): an insert by u1
\* for d1 and a delete by u2 for d2.
InsertOps ==
  { [type |-> "insert", position |-> 0, text |-> <<"X">>, userId |-> "u1",
     documentId |-> "d1", timestamp |-> 1] }

DeleteOps ==
  { [type |-> "delete", position |-> 2, length |-> 1, userId |-> "u2",
     documentId |-> "d2", timestamp |-> 2] }

TextOperation == InsertOps \cup DeleteOps

\* ------------------------------------------------------------------- state
VARIABLES
  activeDocuments,  \* presence registry: documentId -> Set<userId>
  rooms,            \* socket.io rooms each connection is in
  connected,        \* connections whose socket is open
  chan,             \* events emitted to a connection, not yet received
  received,         \* events a connection has received, in order
  srvLog,           \* events addressed to a connection, in handling order
  session,          \* <<documentId, userId>> joined through a connection
  joinedUsers,      \* userIds of the join-document events handled per doc
  leaveSeen,        \* a leave-document for the doc has been handled
  last,             \* the gateway event handled last
  nEvents,          \* number of gateway messages handled
  fn,               \* utils/ot.ts: the function called, "idle" before a call
  content,          \* utils/ot.ts: the content argument
  operation,        \* utils/ot.ts: the operation argument
  against,          \* utils/ot.ts: the operation transformed against
  result,           \* utils/ot.ts: what the call returned or threw
  platform,         \* client store: "web" or "mobile" EditorContext
  user,             \* client store: the local user's id, or Null
  currentDocumentId,      \* client store: the document joined, or Null
  isConnectedToDocument,  \* client store: joined flag
  activeUsers,      \* client store: the member list last received
  cursorPositions,  \* client store: {userId, position} entries
  documentContent,  \* client store: the local buffer
  emitted,          \* client store: what it sent through the socket
  now,              \* client store: the clock read by Date.now()
  handled,          \* client store: the function or listener run last
  replica,          \* editing session: each client's local buffer
  upstream,         \* editing session: operations sent, not yet at the server
  edited,           \* editing session: each client's local edits, in order
  applied,          \* editing session: remote operations each client handled
  screenId,         \* DocumentScreen: the route's document id
  lastRender,       \* DocumentScreen: state the last render's closures saw
  needsRender,      \* DocumentScreen: context state changed since that render
  loading,          \* DocumentContext: loading flag
  fetching,         \* DocumentContext: fetchDocument requests in flight
  renders,          \* DocumentScreen: number of renders committed
  documents,        \* document store: id -> owner and collaborators
  request           \* document controller: the request handled last

gatewayVars == << activeDocuments, rooms, connected, chan, received, srvLog,
                  session, joinedUsers, leaveSeen, last, nEvents >>

otVars == << fn, content, operation, against, result >>

clientVars == << platform, user, currentDocumentId, isConnectedToDocument,
                 activeUsers, cursorPositions, documentContent, emitted, now,
                 handled >>

sessionVars == << replica, upstream, edited, applied >>

screenVars == << screenId, lastRender, needsRender, loading, fetching, renders >>

storeVars == << documents, request >>

vars == << gatewayVars, otVars, clientVars, sessionVars, screenVars,
          storeVars >>

\* ---------------------------------------------------------------- helpers
Range(s) == { s[i] : i \in 1..Len(s) }

NoDup(s) == \A i, j \in 1..Len(s) : i # j => s[i] # s[j]

\* A JavaScript Set keeps its elements in insertion order, each once.
\* new Set()
NewSet == << >>

\* Array.prototype.push in place of Set.prototype.add: duplicates are kept.
SetAddPush(s, u) == Append(s, u)

\* Set.prototype.add
SetAdd(s, u) == IF u \in Range(s) THEN s ELSE Append(s, u)

\* Set.prototype.delete
SetDelete(s, u) == SelectSeq(s, LAMBDA x : x # u)

\* Array.from(set)
ArrayFrom(s) == s

\* The documents tracked by the registry (the keys of activeDocuments).
Tracked == DOMAIN activeDocuments

\* members(documentId): the current set, empty when untracked.
Members(d) == IF d \in Tracked THEN Range(activeDocuments[d]) ELSE {}

\* io.to(room) in place of socket.to(room): the sender is not excluded.
ToWithSender(c, d, rms) == { x \in connected : d \in rms[x] }

\* socket.to(room): every open socket in the room except the sender.
To(c, d, rms) == { x \in connected \ {c} : d \in rms[x] }

\* An emit that overtakes the events already queued for the recipient.
EmitOvertaking(ch, R, m) ==
  [ x \in Conns |-> IF x \in R THEN <<m>> \o ch[x] ELSE ch[x] ]

\* emit: append the event to the transport queue of each recipient.
Emit(ch, R, m) == [ x \in Conns |-> IF x \in R THEN Append(ch[x], m) ELSE ch[x] ]

Event(e, c, d, u) == [event |-> e, conn |-> c, documentId |-> d, userId |-> u]

\* Event payloads as the handlers build them.
UserJoined(u, users) == [event |-> "user-joined", userId |-> u, users |-> users]

ActiveUsers(users) == [event |-> "active-users", users |-> users]

UserLeft(u, users) == [event |-> "user-left", userId |-> u, users |-> users]

DocumentOperation(op) == [event |-> "document-operation", operation |-> op]

CursorPosition(u, p) == [event |-> "cursor-position", userId |-> u, position |-> p]

\* ------------------------------------------------------------------- Init
\* The gateway after setupSocketHandlers: nothing tracked, no socket open.
GatewayInit ==
  /\ activeDocuments = [d \in {} |-> NewSet]
  /\ rooms = [c \in Conns |-> {}]
  /\ connected = {}
  /\ chan = [c \in Conns |-> << >>]
  /\ received = [c \in Conns |-> << >>]
  /\ srvLog = [c \in Conns |-> << >>]
  /\ session = [c \in Conns |-> {}]
  /\ joinedUsers = [d \in Docs |-> {}]
  /\ leaveSeen = [d \in Docs |-> FALSE]
  /\ last = Event("none", "-", NoDoc, NoUser)
  /\ nEvents = 0

\* No function of utils/ot.ts has been called.
OtInit ==
  /\ fn = "idle"
  /\ content = << >>
  /\ operation = [type |-> "none"]
  /\ against = [type |-> "none"]
  /\ result = [kind |-> "none"]

\* EditorProvider's useState initial values, for a platform and a user.
EditorProviderInit(pl, u) ==
  /\ platform = pl
  /\ user = u
  /\ currentDocumentId = Null
  /\ isConnectedToDocument = FALSE
  /\ activeUsers = << >>
  /\ cursorPositions = << >>
  /\ documentContent = << >>
  /\ emitted = << >>
  /\ now = 1
  /\ handled = "none"

\* No editing session: the clients hold the snapshot, nothing is in flight.
SessionInit(snapshot) ==
  /\ replica = [c \in Conns |-> snapshot]
  /\ upstream = [c \in Conns |-> << >>]
  /\ edited = [c \in Conns |-> << >>]
  /\ applied = [c \in Conns |-> 0]

\* Closures of a render that has not happened.
NoRender == [currentDocumentId |-> Null, isConnectedToDocument |-> FALSE,
             mounted |-> FALSE]

\* DocumentScreen for the route's document id, about to mount.
ScreenInit(id) ==
  /\ screenId = id
  /\ lastRender = NoRender
  /\ needsRender = TRUE
  /\ loading = FALSE
  /\ fetching = 0
  /\ renders = 0

\* The document collection is empty and no request has been handled.
StoreInit ==
  /\ documents = << >>
  /\ request = [handler |-> "none"]

Init ==
  /\ GatewayInit
  /\ OtInit
  /\ EditorProviderInit("web", "u1")
  /\ SessionInit(<< >>)
  /\ ScreenInit("d1")
  /\ StoreInit

\* ---------------------------------------------------------------- actions
\* io.on('connection'): a socket opens; it is in no document room.
OnConnection(c) ==
  /\ c \notin connected
  /\ connected' = connected \cup {c}
  /\ last' = Event("connection", c, NoDoc, NoUser)
  /\ UNCHANGED << activeDocuments, rooms, chan, received, srvLog, session,
                  joinedUsers, leaveSeen, nEvents >>
  /\ UNCHANGED << otVars, clientVars, sessionVars, screenVars,
                  storeVars >>

\* A join that replaces the document's set instead of adding to it.
JoinRegistryFresh(reg, d, u) ==
  [ k \in DOMAIN reg \cup {d} |-> IF k = d THEN SetAdd(NewSet, u) ELSE reg[k] ]

\* The registry after join-document: the set is created when absent and the
\* user added to it.
JoinRegistry(reg, d, u) ==
  LET cur == IF d \in DOMAIN reg THEN reg[d] ELSE NewSet
  IN [ k \in DOMAIN reg \cup {d} |-> IF k = d THEN SetAdd(cur, u) ELSE reg[k] ]

\* socket.on('join-document')
OnJoin(c, d, u) ==
  /\ c \in connected
  /\ nEvents < MaxEvents
  /\ last' = Event("join-document", c, d, u)
  /\ LET rms == [rooms EXCEPT ![c] = @ \cup {d}]
         reg == JoinRegistry(activeDocuments, d, u)
         users == ArrayFrom(reg[d])
         others == To(c, d, rms)
     IN /\ rooms' = rms
        /\ activeDocuments' = reg
        /\ chan' = Emit(Emit(chan, others, UserJoined(u, users)),
                        {c}, ActiveUsers(users))
        /\ srvLog' = [ x \in Conns |->
                         IF x = c THEN Append(srvLog[x], ActiveUsers(users))
                         ELSE IF x \in connected /\ d \in rooms[x]
                              THEN Append(srvLog[x], UserJoined(u, users))
                              ELSE srvLog[x] ]
  /\ session' = [session EXCEPT ![c] = @ \cup {<<d, u>>}]
  /\ joinedUsers' = [joinedUsers EXCEPT ![d] = @ \cup {u}]
  /\ nEvents' = nEvents + 1
  /\ UNCHANGED << connected, received, leaveSeen >>
  /\ UNCHANGED << otVars, clientVars, sessionVars, screenVars,
                  storeVars >>

\* A leave without the clean-up of an emptied set.
LeaveRegistryKeepKey(reg, d, u) ==
  IF d \in DOMAIN reg THEN [reg EXCEPT ![d] = SetDelete(reg[d], u)] ELSE reg

\* A leave that drops the document's entry whoever leaves.
LeaveRegistryDropKey(reg, d, u) == [ k \in DOMAIN reg \ {d} |-> reg[k] ]

\* The user list read before the leaving user is deleted from the set.
LeftUsersStale(reg, d, u) == ArrayFrom(reg[d])

\* The users field of user-left: the set after the delete.
LeftUsers(reg, d, u) == ArrayFrom(SetDelete(reg[d], u))

\* The registry after handleUserLeaveDocument: the user is deleted from a
\* tracked document's set, and the key is deleted when the set is empty.
LeaveRegistry(reg, d, u) ==
  IF d \in DOMAIN reg
  THEN LET rest == SetDelete(reg[d], u)
       IN IF Len(rest) = 0
          THEN [ k \in DOMAIN reg \ {d} |-> reg[k] ]
          ELSE [reg EXCEPT ![d] = rest]
  ELSE reg

\* handleUserLeaveDocument(socket, documentId, userId)
handleUserLeaveDocument(c, d, u) ==
  LET rms == [rooms EXCEPT ![c] = @ \ {d}]
      others == To(c, d, rms)
  IN /\ rooms' = rms
     /\ activeDocuments' = LeaveRegistry(activeDocuments, d, u)
     /\ IF d \in Tracked
        THEN LET users == LeftUsers(activeDocuments, d, u)
             IN /\ chan' = Emit(chan, others, UserLeft(u, users))
                /\ srvLog' = [ x \in Conns |->
                                 IF x # c /\ x \in connected /\ d \in rooms[x]
                                 THEN Append(srvLog[x], UserLeft(u, users))
                                 ELSE srvLog[x] ]
        ELSE UNCHANGED << chan, srvLog >>

\* socket.on('leave-document')
OnLeave(c, d, u) ==
  /\ c \in connected
  /\ nEvents < MaxEvents
  /\ last' = Event("leave-document", c, d, u)
  /\ handleUserLeaveDocument(c, d, u)
  /\ session' = [session EXCEPT ![c] = @ \ {<<d, u>>}]
  /\ leaveSeen' = [leaveSeen EXCEPT ![d] = TRUE]
  /\ nEvents' = nEvents + 1
  /\ UNCHANGED << connected, received, joinedUsers >>
  /\ UNCHANGED << otVars, clientVars, sessionVars, screenVars,
                  storeVars >>

\* socket.on('document-operation')
OnOperation(c, op) ==
  /\ c \in connected
  /\ nEvents < MaxEvents
  /\ last' = Event("document-operation", c, op.documentId, op.userId)
  /\ chan' = Emit(chan, To(c, op.documentId, rooms), DocumentOperation(op))
  /\ srvLog' = [ x \in Conns |->
                   IF x # c /\ x \in connected /\ op.documentId \in rooms[x]
                   THEN Append(srvLog[x], DocumentOperation(op))
                   ELSE srvLog[x] ]
  /\ nEvents' = nEvents + 1
  /\ UNCHANGED << activeDocuments, rooms, connected, received, session,
                  joinedUsers, leaveSeen >>
  /\ UNCHANGED << otVars, clientVars, sessionVars, screenVars,
                  storeVars >>

\* socket.on('cursor-position')
OnCursor(c, d, u, p) ==
  /\ c \in connected
  /\ nEvents < MaxEvents
  /\ last' = Event("cursor-position", c, d, u)
  /\ chan' = Emit(chan, To(c, d, rooms), CursorPosition(u, p))
  /\ srvLog' = [ x \in Conns |->
                   IF x # c /\ x \in connected /\ d \in rooms[x]
                   THEN Append(srvLog[x], CursorPosition(u, p))
                   ELSE srvLog[x] ]
  /\ nEvents' = nEvents + 1
  /\ UNCHANGED << activeDocuments, rooms, connected, received, session,
                  joinedUsers, leaveSeen >>
  /\ UNCHANGED << otVars, clientVars, sessionVars, screenVars,
                  storeVars >>

\* A disconnect handler that takes the users the connection joined out of
\* the registry.
DisconnectRegistryCleanup(reg, c) ==
  LET rest(d) == SelectSeq(reg[d], LAMBDA u : <<d, u>> \notin session[c])
  IN [ d \in { k \in DOMAIN reg : Len(rest(k)) > 0 } |-> rest(d) ]

\* The registry after the disconnect handler: the handler only logs.
DisconnectRegistry(reg, c) == reg

\* socket.on('disconnect'): socket.io has taken the closed socket out of
\* its rooms and drops what was in flight to it.
OnDisconnect(c) ==
  /\ c \in connected
  /\ last' = Event("disconnect", c, NoDoc, NoUser)
  /\ connected' = connected \ {c}
  /\ rooms' = [rooms EXCEPT ![c] = {}]
  /\ activeDocuments' = DisconnectRegistry(activeDocuments, c)
  /\ chan' = [chan EXCEPT ![c] = << >>]
  /\ received' = [received EXCEPT ![c] = << >>]
  /\ srvLog' = [srvLog EXCEPT ![c] = << >>]
  /\ session' = [session EXCEPT ![c] = {}]
  /\ UNCHANGED << joinedUsers, leaveSeen, nEvents >>
  /\ UNCHANGED << otVars, clientVars, sessionVars, screenVars,
                  storeVars >>

\* The transport hands a connection the oldest event in flight to it.
NextDelivered(q) == Head(q)

Deliver(c) ==
  /\ c \in connected
  /\ chan[c] # << >>
  /\ received' = [received EXCEPT ![c] = Append(@, NextDelivered(chan[c]))]
  /\ chan' = [chan EXCEPT ![c] = Tail(@)]
  /\ UNCHANGED << activeDocuments, rooms, connected, srvLog, session,
                  joinedUsers, leaveSeen, last, nEvents >>
  /\ UNCHANGED << otVars, clientVars, sessionVars, screenVars,
                  storeVars >>

Next ==
  \/ \E c \in Conns : OnConnection(c)
  \/ \E c \in Conns, d \in Docs, u \in Users : OnJoin(c, d, u)
  \/ \E c \in Conns, d \in Docs, u \in Users : OnLeave(c, d, u)
  \/ \E c \in Conns, op \in TextOperation : OnOperation(c, op)
  \/ \E c \in Conns, d \in Docs, u \in Users, p \in Positions : OnCursor(c, d, u, p)
  \/ \E c \in Conns : OnDisconnect(c)
  \/ \E c \in Conns : Deliver(c)

Spec == Init /\ [][Next]_vars

\* =========================================================== utils/ot.ts
\* The pure functions of src/utils/ot.ts, each called once on inputs drawn
\* from the sets below; the call and what it returned are kept in the state.

\* Longest generated buffer, and largest position of an operation.
MaxLen == 3
MaxPosition == 10

Chars == {"a", "b"}

Min(a, b) == IF a < b THEN a ELSE b

Max(a, b) == IF a > b THEN a ELSE b

\* Buffers: every string over Chars up to MaxLen, and "hello".
Hello == <<"h", "e", "l", "l", "o">>

Buffers == UNION { [1..n -> Chars] : n \in 0..MaxLen } \cup {Hello}

\* Operations handed to applyInsert / applyDelete / applyOperation: any type
\* tag, any position (negative, in range, beyond the end), text or length
\* present or missing, empty, zero or negative.
ApplyPositions == (0 - MaxLen) .. MaxPosition

ApplyTexts == { << >>, <<"X">>, <<"!">>, <<"X", "Y">> }

ApplyLengths == {0 - 1, 0, 1, 2, 100}

OpTypes == {"insert", "delete", "retain"}

ApplyOps ==
  { [type |-> t, position |-> p, userId |-> "u1", documentId |-> "d1",
     timestamp |-> 1, version |-> 1] : t \in OpTypes, p \in ApplyPositions }
  \cup
  { [type |-> t, position |-> p, text |-> x, userId |-> "u1",
     documentId |-> "d1", timestamp |-> 1, version |-> 1] :
       t \in OpTypes, p \in ApplyPositions, x \in ApplyTexts }
  \cup
  { [type |-> t, position |-> p, length |-> n, userId |-> "u1",
     documentId |-> "d1", timestamp |-> 1, version |-> 1] :
       t \in OpTypes, p \in ApplyPositions, n \in ApplyLengths }

\* Operations handed to transformOperation.
Timestamps == {1, 2}

PendingOps ==
  { [type |-> "insert", position |-> p, text |-> <<"Y">>, userId |-> u,
     documentId |-> d, timestamp |-> t, version |-> 1] :
       p \in 0..MaxPosition, u \in Users, d \in Docs, t \in Timestamps }
  \cup
  { [type |-> "delete", position |-> p, length |-> 1, userId |-> u,
     documentId |-> d, timestamp |-> t, version |-> 1] :
       p \in 0..MaxPosition, u \in Users, d \in Docs, t \in Timestamps }

AgainstOps ==
  { [type |-> "insert", position |-> p, text |-> x, userId |-> u,
     documentId |-> d, timestamp |-> t, version |-> 1] :
       p \in 0..MaxPosition, x \in {<< >>, <<"X">>, <<"a", "b", "c">>},
       u \in Users, d \in Docs, t \in Timestamps }
  \cup
  { [type |-> "delete", position |-> p, length |-> n, userId |-> u,
     documentId |-> d, timestamp |-> t, version |-> 1] :
       p \in 0..MaxPosition, n \in {0, 1, 5},
       u \in Users, d \in Docs, t \in Timestamps }

\* Operations of a replica that applies one operation and then a second one
\* transformed against it.
ReplicaOps ==
  { [type |-> "insert", position |-> p, text |-> x, userId |-> u,
     documentId |-> "d1", timestamp |-> t, version |-> 1] :
       p \in 0..2, x \in {<<"X">>, <<"Y">>}, u \in Users, t \in Timestamps }
  \cup
  { [type |-> "delete", position |-> p, length |-> 1, userId |-> u,
     documentId |-> "d1", timestamp |-> t, version |-> 1] :
       p \in 0..2, u \in Users, t \in Timestamps }

\* A returned value, and a thrown Error.
Returned(v) == [kind |-> "ok", value |-> v]

Thrown(msg) == [kind |-> "error", message |-> msg]

\* !operation.text: the text is missing or the empty string.
NoText(op) == "text" \notin DOMAIN op \/ Len(op.text) = 0

\* !operation.length: the length is missing or 0 (a negative number is truthy).
NoLength(op) == "length" \notin DOMAIN op \/ op.length = 0

\* String.prototype.slice(start, end): a negative index counts from the end.
SliceIndex(s, i) == IF i < 0 THEN Max(Len(s) + i, 0) ELSE Min(i, Len(s))

Slice(s, start, end) ==
  LET from == SliceIndex(s, start)
      to == SliceIndex(s, end)
  IN IF from < to THEN SubSeq(s, from + 1, to) ELSE << >>

\* A tail that skips the character at the start index.
SliceFromNext(s, start) == Slice(s, start + 1, Len(s))

\* String.prototype.slice(start)
SliceFrom(s, start) == Slice(s, start, Len(s))

applyInsert(c, op) ==
  IF op.type # "insert" \/ NoText(op)
  THEN Thrown("Invalid insert operation")
  ELSE LET position == Min(op.position, Len(c))
       IN Returned(Slice(c, 0, position) \o op.text \o SliceFrom(c, position))

applyDelete(c, op) ==
  IF op.type # "delete" \/ NoLength(op)
  THEN Thrown("Invalid delete operation")
  ELSE LET position == Min(op.position, Len(c))
           length == Min(op.length, Len(c) - position)
       IN Returned(Slice(c, 0, position) \o SliceFrom(c, position + length))

applyOperation(c, op) ==
  CASE op.type = "insert" -> applyInsert(c, op)
    [] op.type = "delete" -> applyDelete(c, op)
    [] OTHER -> Thrown("Unknown operation type")

\* A comparison that also transforms against an operation of the same time.
HappenedAfterOrSame(op, ag) == op.timestamp >= ag.timestamp

\* Any difference of timestamps counts, whichever operation is the later.
HappenedAtAnotherTime(op, ag) == op.timestamp # ag.timestamp

\* A comparison the wrong way round.
HappenedBefore(op, ag) == op.timestamp < ag.timestamp

\* operation.timestamp > against.timestamp
HappenedAfter(op, ag) == op.timestamp > ag.timestamp

\* An insert at the very position of the operation does not shift it.
AgainstInsertStrict(op, ag) ==
  IF ag.position < op.position
  THEN [op EXCEPT !.position = op.position + Len(ag.text)]
  ELSE op

\* The operation against an insert of non-empty text.
AgainstInsert(op, ag) ==
  IF ag.position <= op.position
  THEN [op EXCEPT !.position = op.position + Len(ag.text)]
  ELSE op

\* A shift by the whole deleted length, overlap or not.
AgainstDeleteWhole(op, ag) ==
  IF ag.position < op.position
  THEN [op EXCEPT !.position = op.position - ag.length]
  ELSE op

\* The operation against a delete of non-zero length.
AgainstDelete(op, ag) ==
  IF ag.position < op.position
  THEN LET overlap == Max(0, ag.position + ag.length - op.position)
       IN [op EXCEPT !.position = op.position - (ag.length - overlap)]
  ELSE op

\* Operations of one user, or of different documents, are not transformed.
SkipTransform(op, ag) == op.userId = ag.userId \/ op.documentId # ag.documentId

transformOperation(op, ag) ==
  IF SkipTransform(op, ag)
  THEN op
  ELSE IF HappenedAfter(op, ag)
       THEN IF ag.type = "insert" /\ ~NoText(ag)
            THEN AgainstInsert(op, ag)
            ELSE IF ag.type = "delete" /\ ~NoLength(ag)
                 THEN AgainstDelete(op, ag)
                 ELSE op
       ELSE op

\* A replica applies `ag` to the buffer and then `op` transformed against it.
applyTransformed(c, op, ag) ==
  LET first == applyOperation(c, ag)
  IN IF first.kind = "ok"
     THEN applyOperation(first.value, transformOperation(op, ag))
     ELSE first

\* One call: the arguments and the outcome are recorded.
Record(f, c, op, ag, r) ==
  /\ fn' = f
  /\ content' = c
  /\ operation' = op
  /\ against' = ag
  /\ result' = r

CallApplyInsert ==
  /\ fn = "idle"
  /\ \E c \in Buffers, op \in ApplyOps :
       Record("applyInsert", c, op, [type |-> "none"], applyInsert(c, op))
  /\ UNCHANGED << gatewayVars, clientVars, sessionVars, screenVars,
                  storeVars >>

CallApplyDelete ==
  /\ fn = "idle"
  /\ \E c \in Buffers, op \in ApplyOps :
       Record("applyDelete", c, op, [type |-> "none"], applyDelete(c, op))
  /\ UNCHANGED << gatewayVars, clientVars, sessionVars, screenVars,
                  storeVars >>

CallApplyOperation ==
  /\ fn = "idle"
  /\ \E c \in Buffers, op \in ApplyOps :
       Record("applyOperation", c, op, [type |-> "none"], applyOperation(c, op))
  /\ UNCHANGED << gatewayVars, clientVars, sessionVars, screenVars,
                  storeVars >>

CallTransformOperation ==
  /\ fn = "idle"
  /\ \E op \in PendingOps, ag \in AgainstOps :
       Record("transformOperation", << >>, op, ag,
              Returned(transformOperation(op, ag)))
  /\ UNCHANGED << gatewayVars, clientVars, sessionVars, screenVars,
                  storeVars >>

CallApplyTransformed ==
  /\ fn = "idle"
  /\ \E c \in Buffers, op \in ReplicaOps, ag \in ReplicaOps :
       Record("applyTransformed", c, op, ag, applyTransformed(c, op, ag))
  /\ UNCHANGED << gatewayVars, clientVars, sessionVars, screenVars,
                  storeVars >>

\* Two replicas start from the same buffer; the first applies `ag` and then
\* `op` transformed against it, the second applies `op` and then `ag`
\* transformed against it.
Replicas(c, op, ag) ==
  [kind |-> "replicas",
   first |-> applyTransformed(c, op, ag),
   second |-> applyTransformed(c, ag, op)]

CallReplicas ==
  /\ fn = "idle"
  /\ \E c \in Buffers, op \in ReplicaOps, ag \in ReplicaOps :
       Record("replicas", c, op, ag, Replicas(c, op, ag))
  /\ UNCHANGED << gatewayVars, clientVars, sessionVars, screenVars,
                  storeVars >>

\* The delete that takes back what an insert put in: same position, the
\* length of the inserted text.
InverseDelete(op) ==
  [type |-> "delete", position |-> op.position, length |-> Len(op.text),
   userId |-> op.userId, documentId |-> op.documentId,
   timestamp |-> op.timestamp, version |-> op.version]

\* applyDelete(applyInsert(content, insert), delete)
insertThenDelete(c, ins, del) ==
  LET inserted == applyInsert(c, ins)
  IN IF inserted.kind = "ok" THEN applyDelete(inserted.value, del) ELSE inserted

InsertOnlyOps == { op \in ApplyOps : op.type = "insert" /\ ~NoText(op) }

CallInsertThenDelete ==
  /\ fn = "idle"
  /\ \E c \in Buffers, ins \in InsertOnlyOps :
       Record("insertThenDelete", c, ins, InverseDelete(ins),
              insertThenDelete(c, ins, InverseDelete(ins)))
  /\ UNCHANGED << gatewayVars, clientVars, sessionVars, screenVars,
                  storeVars >>

OtNext ==
  \/ CallApplyInsert
  \/ CallApplyDelete
  \/ CallApplyOperation
  \/ CallTransformOperation
  \/ CallApplyTransformed
  \/ CallReplicas
  \/ CallInsertThenDelete

SpecOT == Init /\ [][OtNext]_vars

\* ===================================================== client EditorContext
\* The client session store: EditorProvider of the web client
\* (client/src/contexts/EditorContext.tsx) and of the mobile client
\* (mobile/src/contexts/EditorContext.tsx), one instance, with the events it
\* is handed and the calls made on it drawn from the sets below.

\* Number of messages the store may send.
MaxSent == 2

Snapshots == { << >>, <<"a", "b">> }

NewContents == { <<"a">>, <<"a", "b", "c">> }

ClientPositions == {0, 1}

UserLists == { <<"u1">>, <<"u2">>, <<"u1", "u2">> }

\* JSON.stringify(convertToRaw(content)) and its inverse
\* convertFromRaw(JSON.parse(text)), which throws on other text.
Stringify(buf) == <<"{">> \o buf \o <<"}">>

Parses(text) == Len(text) >= 2 /\ text[1] = "{" /\ text[Len(text)] = "}"

Parse(text) == SubSeq(text, 2, Len(text) - 1)

\* document-operation events handed to the store.
RemoteOps ==
  { [type |-> "insert", position |-> p, text |-> x, userId |-> u,
     documentId |-> "d1", timestamp |-> 1] :
       p \in ClientPositions, x \in {<<"X">>, Stringify(<<"X">>)}, u \in Users }
  \cup
  { [type |-> "delete", position |-> p, length |-> 1, userId |-> u,
     documentId |-> "d1", timestamp |-> 1] : p \in ClientPositions, u \in Users }

JoinDocumentMsg(d, u) == [event |-> "join-document", documentId |-> d, userId |-> u]

LeaveDocumentMsg(d, u) == [event |-> "leave-document", documentId |-> d, userId |-> u]

CursorPositionMsg(d, u, p) ==
  [event |-> "cursor-position", documentId |-> d, userId |-> u, position |-> p]

\* useEffect on currentDocument: the buffer is seeded from the snapshot.
SeedContent(pl, snapshot) ==
  IF pl = "web" /\ Parses(snapshot) THEN Parse(snapshot) ELSE snapshot

LoadDocument(snapshot) ==
  /\ handled' = "loadDocument"
  /\ documentContent' = SeedContent(platform, snapshot)
  /\ UNCHANGED << platform, user, currentDocumentId, isConnectedToDocument,
                  activeUsers, cursorPositions, emitted, now >>
  /\ UNCHANGED << gatewayVars, otVars, sessionVars, screenVars,
                  storeVars >>

\* joinDocument(documentId)
JoinDocument(d) ==
  /\ Len(emitted) < MaxSent
  /\ handled' = "joinDocument"
  /\ IF user = Null
     THEN UNCHANGED << currentDocumentId, emitted, isConnectedToDocument >>
     ELSE /\ currentDocumentId' = d
          /\ emitted' = Append(emitted, JoinDocumentMsg(d, user))
          /\ isConnectedToDocument' = TRUE
  /\ UNCHANGED << platform, user, activeUsers, cursorPositions,
                  documentContent, now >>
  /\ UNCHANGED << gatewayVars, otVars, sessionVars, screenVars,
                  storeVars >>

\* leaveDocument()
LeaveDocument ==
  /\ Len(emitted) < MaxSent
  /\ handled' = "leaveDocument"
  /\ IF user = Null \/ currentDocumentId = Null
     THEN UNCHANGED << currentDocumentId, emitted, isConnectedToDocument,
                       activeUsers, cursorPositions, documentContent >>
     ELSE /\ emitted' = Append(emitted, LeaveDocumentMsg(currentDocumentId, user))
          /\ currentDocumentId' = Null
          /\ isConnectedToDocument' = FALSE
          /\ activeUsers' = << >>
          /\ cursorPositions' = << >>
          /\ documentContent' = documentContent
  /\ UNCHANGED << platform, user, now >>
  /\ UNCHANGED << gatewayVars, otVars, sessionVars, screenVars,
                  storeVars >>

\* The operation built for a local edit: the whole new content, inserted at 0.
LocalOperation(pl, newContent, u, d, t) ==
  [type |-> "insert", position |-> 0,
   text |-> IF pl = "web" THEN Stringify(newContent) ELSE newContent,
   userId |-> u, documentId |-> d, timestamp |-> t]

\* What a local edit sends: on the web a cursor position and the operation,
\* and only when the content changed; on mobile the operation.
LocalEditMessages(pl, buf, newContent, p, u, d, t) ==
  IF u = Null \/ d = Null THEN << >>
  ELSE IF pl = "web"
       THEN IF buf # newContent
            THEN << CursorPositionMsg(d, u, p),
                    DocumentOperation(LocalOperation(pl, newContent, u, d, t)) >>
            ELSE << >>
       ELSE << DocumentOperation(LocalOperation(pl, newContent, u, d, t)) >>

\* updateContent(newContent) on mobile, updateEditorState(newState) on the web
UpdateContent(newContent, p) ==
  LET msgs == LocalEditMessages(platform, documentContent, newContent, p,
                                user, currentDocumentId, now)
  IN /\ Len(emitted) + Len(msgs) <= MaxSent
     /\ handled' = "updateContent"
     /\ emitted' = emitted \o msgs
     /\ now' = IF msgs = << >> THEN now ELSE now + 1
     /\ documentContent' = newContent
     /\ UNCHANGED << platform, user, currentDocumentId, isConnectedToDocument,
                     activeUsers, cursorPositions >>
     /\ UNCHANGED << gatewayVars, otVars, sessionVars, screenVars,
                  storeVars >>

\* sendCursorPosition(position)
SendCursorPosition(p) ==
  /\ Len(emitted) < MaxSent
  /\ handled' = "sendCursorPosition"
  /\ emitted' = IF user = Null \/ currentDocumentId = Null THEN emitted
                ELSE Append(emitted, CursorPositionMsg(currentDocumentId, user, p))
  /\ UNCHANGED << platform, user, currentDocumentId, isConnectedToDocument,
                  activeUsers, cursorPositions, documentContent, now >>
  /\ UNCHANGED << gatewayVars, otVars, sessionVars, screenVars,
                  storeVars >>

\* A client that keeps its own buffer whatever operation arrives.
EditorKeepsBuffer(pl, u, buf, op) == buf

\* applyOperation(operation) of the EditorContext: the buffer it leaves.
EditorApplyOperation(pl, u, buf, op) ==
  IF u # Null /\ op.userId = u
  THEN buf
  ELSE IF op.type = "insert" /\ ~NoText(op)
       THEN IF pl = "mobile" THEN op.text
            ELSE IF Parses(op.text) THEN Parse(op.text) ELSE buf
       ELSE buf

\* socket.on('document-operation', handleDocumentOperation)
HandleDocumentOperation(op) ==
  /\ handled' = "handleDocumentOperation"
  /\ documentContent' = EditorApplyOperation(platform, user, documentContent, op)
  /\ UNCHANGED << platform, user, currentDocumentId, isConnectedToDocument,
                  activeUsers, cursorPositions, emitted, now >>
  /\ UNCHANGED << gatewayVars, otVars, sessionVars, screenVars,
                  storeVars >>

\* socket.on('user-joined', handleUserJoined)
HandleUserJoined(u, users) ==
  /\ handled' = "handleUserJoined"
  /\ activeUsers' = users
  /\ UNCHANGED << platform, user, currentDocumentId, isConnectedToDocument,
                  cursorPositions, documentContent, emitted, now >>
  /\ UNCHANGED << gatewayVars, otVars, sessionVars, screenVars,
                  storeVars >>

\* socket.on('user-left', handleUserLeft)
HandleUserLeft(u, users) ==
  /\ handled' = "handleUserLeft"
  /\ activeUsers' = users
  /\ cursorPositions' = SelectSeq(cursorPositions, LAMBDA cur : cur.userId # u)
  /\ UNCHANGED << platform, user, currentDocumentId, isConnectedToDocument,
                  documentContent, emitted, now >>
  /\ UNCHANGED << gatewayVars, otVars, sessionVars, screenVars,
                  storeVars >>

\* socket.on('active-users', handleActiveUsers)
HandleActiveUsers(users) ==
  /\ handled' = "handleActiveUsers"
  /\ activeUsers' = users
  /\ UNCHANGED << platform, user, currentDocumentId, isConnectedToDocument,
                  cursorPositions, documentContent, emitted, now >>
  /\ UNCHANGED << gatewayVars, otVars, sessionVars, screenVars,
                  storeVars >>

\* Every cursor-position event adds an entry.
UpdateCursorAppend(prev, u, p) == Append(prev, [userId |-> u, position |-> p])

\* The cursor list after a cursor-position event: the user's entry is
\* updated in place, or appended when there is none.
UpdateCursor(prev, u, p) ==
  IF \E i \in 1..Len(prev) : prev[i].userId = u
  THEN LET existingIndex == CHOOSE i \in 1..Len(prev) :
                              /\ prev[i].userId = u
                              /\ \A j \in 1..(i - 1) : prev[j].userId # u
       IN [prev EXCEPT ![existingIndex] = [@ EXCEPT !.position = p]]
  ELSE Append(prev, [userId |-> u, position |-> p])

\* socket.on('cursor-position', handleCursorPosition)
HandleCursorPosition(u, p) ==
  /\ handled' = "handleCursorPosition"
  /\ cursorPositions' = UpdateCursor(cursorPositions, u, p)
  /\ UNCHANGED << platform, user, currentDocumentId, isConnectedToDocument,
                  activeUsers, documentContent, emitted, now >>
  /\ UNCHANGED << gatewayVars, otVars, sessionVars, screenVars,
                  storeVars >>

ClientInit ==
  /\ GatewayInit
  /\ OtInit
  /\ SessionInit(<< >>)
  /\ ScreenInit("d1")
  /\ StoreInit
  /\ \E pl \in Platforms, u \in {Null, "u1"} : EditorProviderInit(pl, u)

ClientNext ==
  \/ \E b \in Snapshots : LoadDocument(b)
  \/ \E d \in Docs : JoinDocument(d)
  \/ LeaveDocument
  \/ \E b \in NewContents, p \in ClientPositions : UpdateContent(b, p)
  \/ \E p \in ClientPositions : SendCursorPosition(p)
  \/ \E op \in RemoteOps : HandleDocumentOperation(op)
  \/ \E u \in Users, users \in UserLists : HandleUserJoined(u, users)
  \/ \E u \in Users, users \in UserLists : HandleUserLeft(u, users)
  \/ \E users \in UserLists : HandleActiveUsers(users)
  \/ \E u \in Users, p \in ClientPositions : HandleCursorPosition(u, p)

SpecClient == ClientInit /\ [][ClientNext]_vars

\* ========================================================= editing session
\* Two clients joined to document "d1" through the gateway: each client's
\* updateContent / updateEditorState, the gateway's document-operation relay
\* and each client's handleDocumentOperation, with the operations in flight
\* between them.

\* Number of local edits a client makes.
MaxEdits == 2

SessionDoc == "d1"

SessionSnapshots == { << >>, <<"a">> }

SessionContents == { <<"x">>, <<"y">> }

\* The user signed in on the client behind a connection.
UserOf(c) == IF c = "c1" THEN "u1" ELSE "u2"

\* The gateway after both clients have joined the document and received the
\* presence events of the joins.
JoinedInit ==
  /\ activeDocuments = [d \in {SessionDoc} |-> SetAdd(SetAdd(NewSet, "u1"), "u2")]
  /\ rooms = [c \in Conns |-> {SessionDoc}]
  /\ connected = Conns
  /\ chan = [c \in Conns |-> << >>]
  /\ received = [c \in Conns |-> << >>]
  /\ srvLog = [c \in Conns |-> << >>]
  /\ session = [c \in Conns |-> { <<SessionDoc, UserOf(c)>> }]
  /\ joinedUsers = [d \in Docs |-> IF d = SessionDoc THEN Users ELSE {}]
  /\ leaveSeen = [d \in Docs |-> FALSE]
  /\ last = Event("join-document", "c2", SessionDoc, "u2")
  /\ nEvents = 0

\* updateContent(newContent) / updateEditorState(newState) on the client
\* behind connection c: the buffer is set and the operation sent.
LocalEdit(c, newContent) ==
  LET msgs == LocalEditMessages(platform, replica[c], newContent, 0, UserOf(c),
                                SessionDoc, Len(edited[c]) + 1)
      ops == SelectSeq(msgs, LAMBDA m : m.event = "document-operation")
  IN /\ Len(edited[c]) < MaxEdits
     /\ replica' = [replica EXCEPT ![c] = newContent]
     /\ upstream' = [upstream EXCEPT ![c] = @ \o ops]
     /\ edited' = [edited EXCEPT
                     ![c] = Append(@, [content |-> newContent, seen |-> applied[c]])]
     /\ UNCHANGED applied
     /\ UNCHANGED << gatewayVars, otVars, clientVars, screenVars,
                  storeVars >>

\* socket.on('document-operation') of the gateway for the oldest operation
\* connection c sent: it is relayed to the other members of the room.
RelayOperation(c) ==
  /\ upstream[c] # << >>
  /\ LET msg == Head(upstream[c])
     IN chan' = Emit(chan, To(c, msg.operation.documentId, rooms), msg)
  /\ upstream' = [upstream EXCEPT ![c] = Tail(@)]
  /\ UNCHANGED << activeDocuments, rooms, connected, received, srvLog, session,
                  joinedUsers, leaveSeen, last, nEvents >>
  /\ UNCHANGED << replica, edited, applied >>
  /\ UNCHANGED << otVars, clientVars, screenVars,
                  storeVars >>

\* handleDocumentOperation on the client behind connection c, for the oldest
\* event in flight to it.
ReceiveOperation(c) ==
  /\ chan[c] # << >>
  /\ replica' = [replica EXCEPT
                   ![c] = EditorApplyOperation(platform, UserOf(c), @,
                                               Head(chan[c]).operation)]
  /\ applied' = [applied EXCEPT ![c] = @ + 1]
  /\ chan' = [chan EXCEPT ![c] = Tail(@)]
  /\ UNCHANGED << activeDocuments, rooms, connected, received, srvLog, session,
                  joinedUsers, leaveSeen, last, nEvents >>
  /\ UNCHANGED << upstream, edited >>
  /\ UNCHANGED << otVars, clientVars, screenVars,
                  storeVars >>

EditingInit ==
  /\ JoinedInit
  /\ OtInit
  /\ ScreenInit("d1")
  /\ StoreInit
  /\ \E pl \in Platforms : EditorProviderInit(pl, "u1")
  /\ \E snapshot \in SessionSnapshots : SessionInit(snapshot)

EditingNext ==
  \/ \E c \in Conns, b \in SessionContents : LocalEdit(c, b)
  \/ \E c \in Conns : RelayOperation(c)
  \/ \E c \in Conns : ReceiveOperation(c)

SpecEditing == EditingInit /\ [][EditingNext]_vars

\* ==================================================== mobile DocumentScreen
\* DocumentScreen of the mobile client mounted on one document id, inside
\* DocumentProvider and EditorProvider. Each provider render makes new
\* fetchDocument / joinDocument / leaveDocument functions (they are plain
\* functions, not memoised), so every render of the screen re-runs both of
\* its effects: the cleanup of the previous run first, with the closures of
\* the previous render, then the effect bodies.

\* Number of renders of the screen.
MaxRenders == 4

\* The cleanup registered by the previous render: leaveDocument() as that
\* render closed over it. The messages it sends.
CleanupMessages(prev) ==
  IF prev.mounted /\ user # Null /\ prev.currentDocumentId # Null
  THEN << LeaveDocumentMsg(prev.currentDocumentId, user) >>
  ELSE << >>

\* The second effect: joinDocument(id) when this render saw no connection.
JoinMessages(id, connectedSeen) ==
  IF ~connectedSeen /\ user # Null
  THEN << JoinDocumentMsg(id, user) >>
  ELSE << >>

\* One render of DocumentScreen and the effects committed with it.
ScreenRender ==
  LET left == CleanupMessages(lastRender) # << >>
      joined == JoinMessages(screenId, isConnectedToDocument) # << >>
  IN /\ needsRender
     /\ renders < MaxRenders
     /\ handled' = "render"
     /\ renders' = renders + 1
     /\ lastRender' = [currentDocumentId |-> currentDocumentId,
                       isConnectedToDocument |-> isConnectedToDocument,
                       mounted |-> TRUE]
     /\ emitted' = emitted \o CleanupMessages(lastRender)
                           \o JoinMessages(screenId, isConnectedToDocument)
     /\ currentDocumentId' = IF joined THEN screenId
                             ELSE IF left THEN Null ELSE currentDocumentId
     /\ isConnectedToDocument' = IF joined THEN TRUE
                                 ELSE IF left THEN FALSE
                                 ELSE isConnectedToDocument
     /\ activeUsers' = IF left THEN << >> ELSE activeUsers
     /\ cursorPositions' = IF left THEN << >> ELSE cursorPositions
     /\ loading' = TRUE
     /\ fetching' = fetching + 1
     /\ needsRender' = (left \/ joined \/ ~loading)
     /\ UNCHANGED << platform, user, documentContent, now, screenId >>
     /\ UNCHANGED << gatewayVars, otVars, sessionVars, storeVars >>

\* A fetchDocument request completes: setCurrentDocument, setLoading(false).
FetchDone ==
  /\ fetching > 0
  /\ handled' = "fetchDocument"
  /\ fetching' = fetching - 1
  /\ loading' = FALSE
  /\ needsRender' = TRUE
  /\ UNCHANGED << platform, user, currentDocumentId, isConnectedToDocument,
                  activeUsers, cursorPositions, documentContent, emitted, now >>
  /\ UNCHANGED << screenId, lastRender, renders >>
  /\ UNCHANGED << gatewayVars, otVars, sessionVars, storeVars >>

\* An active-users event reaches the EditorProvider while the screen is up.
ScreenActiveUsers(users) ==
  /\ lastRender.mounted
  /\ handled' = "handleActiveUsers"
  /\ activeUsers' = users
  /\ needsRender' = TRUE
  /\ UNCHANGED << platform, user, currentDocumentId, isConnectedToDocument,
                  cursorPositions, documentContent, emitted, now >>
  /\ UNCHANGED << screenId, lastRender, loading, fetching, renders >>
  /\ UNCHANGED << gatewayVars, otVars, sessionVars, storeVars >>

ScreenSpecInit ==
  /\ GatewayInit
  /\ OtInit
  /\ StoreInit
  /\ EditorProviderInit("mobile", "u1")
  /\ SessionInit(<< >>)
  /\ \E id \in Docs : ScreenInit(id)

ScreenNext ==
  \/ ScreenRender
  \/ FetchDone
  \/ \E users \in UserLists : ScreenActiveUsers(users)

SpecScreen == ScreenSpecInit /\ [][ScreenNext]_vars

\* ====================================================== document controller
\* createDocument, addCollaborator and removeCollaborator of
\* controllers/document.controller.ts over the document collection. A user's
\* ObjectId is written as the user's name; an id received as a string (a
\* route parameter) is a record of the id it spells and of whether it is
\* spelled with upper-case hex digits.

\* Number of documents created.
MaxDocuments == 2

\* ObjectId.prototype.toHexString() / toString(): lower-case hex.
ToHexString(oid) == [hex |-> oid, upper |-> FALSE]

\* String.prototype.toLowerCase()
ToLowerCase(str) == [str EXCEPT !.upper = FALSE]

\* ObjectId.prototype.equals(string): the string is compared in lower case.
ObjectIdEquals(oid, str) == ToLowerCase(str) = ToHexString(oid)

\* document.owner.toString() === collaboratorId
SameString(oid, str) == ToHexString(oid) = str

\* Strings a client may send as :collaboratorId: ids of users and of nobody,
\* in either case, and a string that is no ObjectId.
NotAnId == [hex |-> "zz", upper |-> FALSE]

IdStrings == { [hex |-> h, upper |-> b] : h \in Users \cup {"u9"}, b \in BOOLEAN }
               \cup {NotAnId}

\* mongoose.Types.ObjectId.isValid
IsValid(str) == str # NotAnId

\* :id of a document: 0 stands for a string that is no ObjectId.
DocumentIds == 0..MaxDocuments

Emails == Users \cup {"nobody"}

\* User.findOne({ email }): the user's _id, or Null.
FindUser(email) == IF email \in Users THEN email ELSE Null

\* collaborators.findIndex(collab => collab.equals(collaboratorId)); 0 for -1.
FindIndex(collaborators, str) ==
  IF \E i \in 1..Len(collaborators) : ObjectIdEquals(collaborators[i], str)
  THEN CHOOSE i \in 1..Len(collaborators) :
         /\ ObjectIdEquals(collaborators[i], str)
         /\ \A j \in 1..(i - 1) : ~ObjectIdEquals(collaborators[j], str)
  ELSE 0

\* collaborators.splice(index, 1)
Splice(collaborators, index) ==
  SubSeq(collaborators, 1, index - 1)
    \o SubSeq(collaborators, index + 1, Len(collaborators))

Respond(h, u, status) == request' = [handler |-> h, user |-> u, status |-> status]

createDocument(u) ==
  /\ Len(documents) < MaxDocuments
  /\ documents' = Append(documents, [owner |-> u, collaborators |-> << u >>])
  /\ Respond("createDocument", u, 201)
  /\ UNCHANGED << gatewayVars, otVars, clientVars, sessionVars, screenVars >>

\* The status addCollaborator answers with.
AddStatus(u, id, email) ==
  IF id = 0 THEN 400
  ELSE IF id \notin DOMAIN documents THEN 404
  ELSE IF documents[id].owner # u THEN 403
  ELSE IF FindUser(email) = Null THEN 404
  ELSE IF FindUser(email) \in Range(documents[id].collaborators) THEN 400
  ELSE 200

addCollaborator(u, id, email) ==
  /\ Respond("addCollaborator", u, AddStatus(u, id, email))
  /\ documents' =
       IF AddStatus(u, id, email) = 200
       THEN [documents EXCEPT ![id].collaborators = Append(@, FindUser(email))]
       ELSE documents
  /\ UNCHANGED << gatewayVars, otVars, clientVars, sessionVars, screenVars >>

\* "Cannot remove the owner as collaborator"
IsOwner(oid, str) == SameString(oid, str)

\* The status removeCollaborator answers with.
RemoveStatus(u, id, collaboratorId) ==
  IF id = 0 \/ ~IsValid(collaboratorId) THEN 400
  ELSE IF id \notin DOMAIN documents THEN 404
  ELSE IF documents[id].owner # u THEN 403
  ELSE IF FindIndex(documents[id].collaborators, collaboratorId) = 0 THEN 404
  ELSE IF IsOwner(documents[id].owner, collaboratorId) THEN 400
  ELSE 200

removeCollaborator(u, id, collaboratorId) ==
  /\ Respond("removeCollaborator", u, RemoveStatus(u, id, collaboratorId))
  /\ documents' =
       IF RemoveStatus(u, id, collaboratorId) = 200
       THEN [documents EXCEPT
               ![id].collaborators =
                 Splice(@, FindIndex(documents[id].collaborators, collaboratorId))]
       ELSE documents
  /\ UNCHANGED << gatewayVars, otVars, clientVars, sessionVars, screenVars >>

StoreSpecInit ==
  /\ GatewayInit
  /\ OtInit
  /\ EditorProviderInit("web", "u1")
  /\ SessionInit(<< >>)
  /\ ScreenInit("d1")
  /\ StoreInit

StoreNext ==
  \/ \E u \in Users : createDocument(u)
  \/ \E u \in Users, id \in DocumentIds, email \in Emails :
       addCollaborator(u, id, email)
  \/ \E u \in Users, id \in DocumentIds, str \in IdStrings :
       removeCollaborator(u, id, str)

SpecStore == StoreSpecInit /\ [][StoreNext]_vars

\* ================================================================ claims
\* Everything emitted to a connection so far, received or still in flight.
Stream(c) == received[c] \o chan[c]

\* The users of the set stored for d after a step (empty when untracked).
UsersAfter(d) == IF d \in DOMAIN activeDocuments' THEN activeDocuments'[d] ELSE << >>

\* C1: every documentId that is a key of the presence registry maps to a
\* non-empty set of userIds, whatever events were handled.
C1_TrackedNonEmpty == \A d \in Tracked : Len(activeDocuments[d]) > 0

\* C1 witness: the last event was a leave that removed a member of a document
\* whose key is still there (another member remains).
C1_Witness ==
  /\ last.event = "leave-document"
  /\ last.documentId \in Tracked
  /\ last.userId \in joinedUsers[last.documentId]
  /\ last.userId \notin Members(last.documentId)

\* C2: when a connection that joined d as u disconnects without having sent
\* leave-document, u is removed from d's presence set.
C2_DisconnectLeaves ==
  [][ \A c \in Conns :
        OnDisconnect(c) =>
          \A p \in session[c] : p[2] \notin Members(p[1])' ]_vars

\* C3: a documentId is a key of the presence registry if and only if at least
\* one connected connection is joined to that document's room.
\* It is stated here for the states in which every connection is in exactly the
\* rooms of the documents it joined and has not left (each leave-document
\* named a document and user that the connection had joined).
C3_TrackedIffRoomOccupied ==
  (\A c \in Conns : rooms[c] = { p[1] : p \in session[c] })
    => \A d \in Docs : d \in Tracked <=> (\E c \in connected : d \in rooms[c])

C5_JoinBroadcast ==
  [][ \A c \in Conns, d \in Docs, u \in Users :
        OnJoin(c, d, u) =>
          LET users == UsersAfter(d)
          IN /\ Range(users) = Members(d) \cup {u}
             /\ NoDup(users)
             /\ \A x \in Conns :
                  chan'[x] = IF x = c
                             THEN Append(chan[x], ActiveUsers(users))
                             ELSE IF x \in connected /\ d \in rooms[x]
                                  THEN Append(chan[x], UserJoined(u, users))
                                  ELSE chan[x] ]_vars

\* C5 witness: a user joined a document twice while another user's connection
\* was in the room; that connection was sent the same two-user list twice.
C5_Witness ==
  /\ last.event = "join-document"
  /\ \E x \in Conns \ {last.conn} : \E i, j \in 1..Len(Stream(x)) :
       /\ i < j
       /\ Stream(x)[i] = Stream(x)[j]
       /\ Stream(x)[j].event = "user-joined"
       /\ Stream(x)[j].userId = last.userId
       /\ Len(Stream(x)[j].users) = 2

\* C6: on leave-document(d, u) from c with u a member of d, u is removed from
\* d's set and every connection remaining in room d gets user-left {u, users}
\* with users the set after the removal, without u; c gets no user-left.
C6_LeaveBroadcast ==
  [][ \A c \in Conns, d \in Docs, u \in Users :
        (OnLeave(c, d, u) /\ u \in Members(d)) =>
          LET users == UsersAfter(d)
          IN /\ u \notin Members(d)'
             /\ Range(users) = Members(d) \ {u}
             /\ \A x \in Conns :
                  chan'[x] = IF x # c /\ x \in connected /\ d \in rooms[x]
                             THEN Append(chan[x], UserLeft(u, users))
                             ELSE chan[x] ]_vars

\* C6 witness: a member left and a connection remaining in the room was sent
\* user-left with the remaining member.
C6_Witness ==
  /\ last.event = "leave-document"
  /\ \E x \in Conns \ {last.conn} :
       /\ last.documentId \in rooms[x]
       /\ Len(Stream(x)) > 0
       /\ LET m == Stream(x)[Len(Stream(x))]
          IN /\ m.event = "user-left"
             /\ m.userId = last.userId
             /\ Len(m.users) = 1
             /\ Range(m.users) = Members(last.documentId)

\* C7: while no leave-document has been handled for a document, its presence
\* set is exactly the set of distinct userIds of the join-document events
\* handled for it: no duplicates, and as many entries as distinct users.
C7_JoinsOnly ==
  \A d \in Docs :
    ~leaveSeen[d] =>
      /\ Members(d) = joinedUsers[d]
      /\ d \in Tracked =>
           /\ NoDup(activeDocuments[d])
           /\ Len(activeDocuments[d]) = Cardinality(joinedUsers[d])

\* C7 witness: three joins of one document through one connection, by two
\* distinct users (so one join is a repeat), u2 first.
C7_Witness ==
  \E c \in Conns, d \in Docs :
    /\ nEvents = 3
    /\ Len(Stream(c)) = 3
    /\ \A i \in 1..3 : Stream(c)[i].event = "active-users"
    /\ \A e \in Docs : ~leaveSeen[e] /\ (e # d => joinedUsers[e] = {})
    /\ activeDocuments[d] = <<"u2", "u1">>

\* C8 as stated: join-document(d, u) followed by leave-document(d, u) leaves
\* the presence registry without the key d.
C8_JoinThenLeaveDropsKey ==
  [][ \A c \in Conns, d \in Docs, u \in Users :
        ( /\ last.event = "join-document"
          /\ last.documentId = d
          /\ last.userId = u
          /\ OnLeave(c, d, u) )
        => d \notin DOMAIN activeDocuments' ]_vars

\* C8 amended: join-document(d, u) followed by leave-document(d, u) leaves d's
\* set without u, and the registry without the key d exactly when no other
\* user is a member of d; otherwise d keeps its other members.
C8_JoinThenLeave ==
  [][ \A c \in Conns, d \in Docs, u \in Users :
        ( /\ last.event = "join-document"
          /\ last.documentId = d
          /\ last.userId = u
          /\ OnLeave(c, d, u) )
        => /\ Members(d)' = Members(d) \ {u}
           /\ d \notin DOMAIN activeDocuments' <=> Members(d) = {u} ]_vars

\* C8 witness: exactly a join-document(d, u) and then a leave-document(d, u)
\* were handled, and d is not tracked.
C8_Witness ==
  /\ nEvents = 2
  /\ last.event = "leave-document"
  /\ joinedUsers[last.documentId] = {last.userId}
  /\ last.documentId \notin Tracked

\* C9: leave-document(d, u) with u not in d's presence set, or d untracked,
\* leaves the presence registry unchanged.
C9_LeaveNonMember ==
  [][ \A c \in Conns, d \in Docs, u \in Users :
        (OnLeave(c, d, u) /\ u \notin Members(d))
          => activeDocuments' = activeDocuments ]_vars

\* C9 witness: the last event was a leave-document for a tracked document by
\* a user who never joined it.
C9_Witness ==
  /\ last.event = "leave-document"
  /\ last.documentId \in Tracked
  /\ last.userId \notin joinedUsers[last.documentId]

\* C10: what a connection has received followed by what is in flight to it is
\* what the gateway addressed to it, in the order the gateway handled the
\* messages: a recipient receives m1 before m2 when m1 was handled first.
C10_RelayOrder == \A c \in Conns : Stream(c) = srvLog[c]

\* C10 witness: a connection received its own active-users reply, then the
\* user-joined of a later join, then an operation relayed after that.
C10_Witness ==
  \E c \in Conns :
    /\ Len(received[c]) = 3
    /\ received[c][1].event = "active-users"
    /\ received[c][2].event = "user-joined"
    /\ received[c][3].event = "document-operation"

\* C11: every connection is in at most one document room; a connection that
\* sends join-document(d2) while joined to d1 is not in both rooms afterwards.
C11_AtMostOneRoom == \A c \in Conns : Cardinality(rooms[c]) <= 1

\* The two operations handed to transformOperation are of different users and
\* of the same document.
Concurrent == operation.userId # against.userId /\ operation.documentId = against.documentId

\* C12: transformOperation(pending, applied) returns pending unchanged when
\* the users are equal, or the documents differ, or pending.timestamp is not
\* strictly greater than applied.timestamp.
C12_TransformIdentity ==
  ( /\ fn = "transformOperation"
    /\ \/ operation.userId = against.userId
       \/ operation.documentId # against.documentId
       \/ operation.timestamp <= against.timestamp )
  => result = Returned(operation)

\* C12 witness: different users, one document, equal timestamps, and an
\* insert of non-empty text before the pending position.
C12_Witness ==
  /\ fn = "transformOperation"
  /\ Concurrent
  /\ operation.timestamp = against.timestamp
  /\ against.type = "insert"
  /\ ~NoText(against)
  /\ against.position < operation.position
  /\ result.value = operation

\* C13: for different users on one document with pending later, against an
\* insert of non-empty text the position becomes pending.position + the
\* text's length when applied.position <= pending.position and stays
\* otherwise ("abc" at 5 against a pending at 5 gives 8).
C13_TransformInsert ==
  ( /\ fn = "transformOperation"
    /\ Concurrent
    /\ operation.timestamp > against.timestamp
    /\ against.type = "insert"
    /\ ~NoText(against) )
  => /\ result.kind = "ok"
     /\ result.value.position =
          IF against.position <= operation.position
          THEN operation.position + Len(against.text)
          ELSE operation.position
     /\ ( /\ against.position = 5
          /\ against.text = <<"a", "b", "c">>
          /\ operation.position = 5 ) => result.value.position = 8

\* C13 witness: the example of the claim.
C13_Witness ==
  /\ fn = "transformOperation"
  /\ Concurrent
  /\ operation.timestamp > against.timestamp
  /\ against.type = "insert"
  /\ against.position = 5
  /\ against.text = <<"a", "b", "c">>
  /\ operation.position = 5
  /\ result.value.position = 8

\* C14: for different users on one document with pending later, against a
\* delete of positive length: when applied.position < pending.position the
\* position becomes pending.position - (applied.length - overlap), with
\* overlap = max(0, applied.position + applied.length - pending.position);
\* otherwise it stays (delete at 2 of length 5: 10 gives 5, 4 gives 2).
C14_TransformDelete ==
  ( /\ fn = "transformOperation"
    /\ Concurrent
    /\ operation.timestamp > against.timestamp
    /\ against.type = "delete"
    /\ "length" \in DOMAIN against
    /\ against.length > 0 )
  => LET overlap == Max(0, against.position + against.length - operation.position)
     IN /\ result.kind = "ok"
        /\ result.value.position =
             IF against.position < operation.position
             THEN operation.position - (against.length - overlap)
             ELSE operation.position
        /\ (against.position = 2 /\ against.length = 5) =>
             /\ operation.position = 10 => result.value.position = 5
             /\ operation.position = 4 => result.value.position = 2

\* C14 witness: the pending position lies inside the deleted span.
C14_Witness ==
  /\ fn = "transformOperation"
  /\ Concurrent
  /\ operation.timestamp > against.timestamp
  /\ against.type = "delete"
  /\ against.position = 2
  /\ against.length = 5
  /\ operation.position = 4
  /\ result.value.position = 2

\* The scenario of C15: `against` is Insert("X", 0) of one user and
\* `operation` the later Insert("Y", 0) of another user on the same document.
XThenY ==
  /\ against.type = "insert" /\ against.position = 0 /\ against.text = <<"X">>
  /\ operation.type = "insert" /\ operation.position = 0 /\ operation.text = <<"Y">>
  /\ Concurrent
  /\ operation.timestamp > against.timestamp

\* C15: in that scenario the transformed operation has position 1, and a
\* replica applying A's operation and then B's transformed one to a buffer
\* ends with "X", "Y" in front of the buffer ("XY" from the empty buffer).
C15_XBeforeY ==
  (fn = "applyTransformed" /\ XThenY)
  => /\ transformOperation(operation, against).position = 1
     /\ result = Returned(<<"X", "Y">> \o content)

\* C15 witness: the scenario on the empty buffer, ending "XY".
C15_Witness ==
  /\ fn = "applyTransformed"
  /\ XThenY
  /\ content = << >>
  /\ result = Returned(<<"X", "Y">>)

\* C16: for any buffer, any insert with non-empty text and any integer
\* position, applyInsert returns buffer[0..p) + text + buffer[p..] with p the
\* position clamped to [0, len(buffer)] ("hello", 10, "!" gives "hello!").
C16_InsertClamped ==
  (fn = "applyInsert" /\ operation.type = "insert" /\ ~NoText(operation))
  => LET p == Max(0, Min(operation.position, Len(content)))
     IN result = Returned(SubSeq(content, 1, p) \o operation.text
                            \o SubSeq(content, p + 1, Len(content)))

\* C17: for any buffer, any delete with positive length and any integer
\* position, applyDelete returns the buffer without the span [p, p+n), where
\* p is the position clamped to [0, len(buffer)] and n = min(length,
\* len(buffer) - p); the result is never longer than the buffer.
C17_DeleteClamped ==
  ( /\ fn = "applyDelete"
    /\ operation.type = "delete"
    /\ "length" \in DOMAIN operation
    /\ operation.length > 0 )
  => LET p == Max(0, Min(operation.position, Len(content)))
         n == Min(operation.length, Len(content) - p)
     IN /\ result = Returned(SubSeq(content, 1, p)
                               \o SubSeq(content, p + n + 1, Len(content)))
        /\ Len(result.value) <= Len(content)

\* C18: applyInsert throws unless the operation is an insert with non-empty
\* text, and applyDelete throws unless it is a delete with a positive length
\* (not missing, zero or negative); nothing is returned in those cases.
C18_InvalidThrows ==
  /\ (fn = "applyInsert" /\ (operation.type # "insert" \/ NoText(operation)))
       => result = Thrown("Invalid insert operation")
  /\ ( /\ fn = "applyDelete"
       /\ \/ operation.type # "delete"
          \/ "length" \notin DOMAIN operation
          \/ operation.length <= 0 )
       => result = Thrown("Invalid delete operation")

\* C19: a document-operation whose userId equals the local user leaves the
\* local buffer unchanged; one from another user makes the local buffer the
\* result of applyOperation of utils/ot.ts on the buffer and that operation
\* (insert: text spliced in at the clamped position; delete: the clamped
\* span removed).
C19_RemoteOperationApplied ==
  [][\A op \in RemoteOps :
       HandleDocumentOperation(op) =>
         documentContent' = IF op.userId = user
                            THEN documentContent
                            ELSE applyOperation(documentContent, op).value]_vars

\* C20: leaveDocument() on a store joined to a document sends leave-document
\* for that document and the local user and clears the active-user list, the
\* cursor list and the local buffer; on a store that is not joined it sends
\* nothing and changes nothing.
C20_LeaveClears ==
  [][LeaveDocument =>
       IF user # Null /\ currentDocumentId # Null
       THEN /\ emitted' = Append(emitted, LeaveDocumentMsg(currentDocumentId, user))
            /\ activeUsers' = << >>
            /\ cursorPositions' = << >>
            /\ documentContent' = << >>
       ELSE UNCHANGED << user, currentDocumentId, isConnectedToDocument,
                         activeUsers, cursorPositions, documentContent,
                         emitted >>]_vars

\* The offset the cursor list holds for user u (the entries for u).
CursorsOf(list, u) == SelectSeq(list, LAMBDA cur : cur.userId = u)

\* C21: the cursor list of a client holds at most one entry per userId; a
\* cursor-position event for a user makes that user's entry carry the new
\* position and leaves the other users' entries alone; right after user-left
\* for user u the list has no entry for u and every other user's entry is
\* unchanged.
C21_CursorMap ==
  /\ [](\A u \in Users : Len(CursorsOf(cursorPositions, u)) <= 1)
  /\ [][\A u \in Users, p \in ClientPositions :
          HandleCursorPosition(u, p) =>
            /\ CursorsOf(cursorPositions', u) = << [userId |-> u, position |-> p] >>
            /\ \A v \in Users \ {u} :
                 CursorsOf(cursorPositions', v) = CursorsOf(cursorPositions, v)]_vars
  /\ [][\A u \in Users, users \in UserLists :
          HandleUserLeft(u, users) =>
            /\ CursorsOf(cursorPositions', u) = << >>
            /\ \A v \in Users \ {u} :
                 CursorsOf(cursorPositions', v) = CursorsOf(cursorPositions, v)]_vars

\* C21 witness: user-left was just handled and took one of two users' cursors
\* away, the other's offset (set by a second cursor-position event) remains.
C21_Witness ==
  /\ handled = "handleUserLeft"
  /\ Len(cursorPositions) = 1
  /\ cursorPositions[1].position = 1

\* C22: only the join-document and leave-document handlers change the
\* registry: handling document-operation, cursor-position or disconnect
\* leaves activeDocuments exactly as it was, so after a disconnect without a
\* leave the users the closed connection had joined are still listed.
C22_OnlyJoinLeaveMutate ==
  [][ /\ (activeDocuments' # activeDocuments) =>
           \/ \E c \in Conns, d \in Docs, u \in Users : OnJoin(c, d, u)
           \/ \E c \in Conns, d \in Docs, u \in Users : OnLeave(c, d, u)
      /\ \A c \in Conns :
           /\ (\E op \in TextOperation : OnOperation(c, op))
                => activeDocuments' = activeDocuments
           /\ (\E d \in Docs, u \in Users, p \in Positions : OnCursor(c, d, u, p))
                => activeDocuments' = activeDocuments
           /\ OnDisconnect(c)
                => /\ activeDocuments' = activeDocuments
                   /\ \A d \in Tracked :
                        d \in DOMAIN activeDocuments'
                        /\ Members(d) \subseteq Range(activeDocuments'[d]) ]_vars

\* C22 witness: the only connection that joined has disconnected without a
\* leave, and its user is still in the registry.
C22_Witness ==
  /\ last.event = "disconnect"
  /\ connected = {}
  /\ \A d \in Docs : ~leaveSeen[d]
  /\ "d1" \in Tracked
  /\ "u1" \in Members("d1")

\* C23: the transform does not make replicas converge. Whenever a and b are
\* inserts of different users on the same document, of texts that do not
\* occur in the buffer, a is the earlier one and lies at a position inside
\* the buffer strictly after b's, the replica applying a and then
\* transformOperation(b, a) and the replica applying b and then
\* transformOperation(a, b) end with different buffers.
C23_Diverges ==
  ( /\ fn = "replicas"
    /\ operation.type = "insert" /\ against.type = "insert"
    /\ Concurrent
    /\ against.timestamp < operation.timestamp
    /\ operation.position < against.position
    /\ against.position <= Len(content) )
  => /\ result.first.kind = "ok"
     /\ result.second.kind = "ok"
     /\ result.first # result.second

\* C23 witness: buffer "ab", a = insert "X" at 2 (earlier), b = insert "Y"
\* at 0 (later); one replica ends "YabX", the other "YaXb".
C23_Witness ==
  /\ fn = "replicas"
  /\ content = <<"a", "b">>
  /\ against.type = "insert" /\ against.position = 2 /\ against.text = <<"X">>
  /\ operation.type = "insert" /\ operation.position = 0 /\ operation.text = <<"Y">>
  /\ Concurrent
  /\ against.timestamp < operation.timestamp
  /\ result.first = Returned(<<"Y", "a", "b", "X">>)
  /\ result.second = Returned(<<"Y", "a", "X", "b">>)

\* Nothing is in flight between the clients and the gateway.
Quiescent ==
  \A c \in Conns : upstream[c] = << >> /\ chan[c] = << >>

\* Each client made exactly one local edit, before handling any operation of
\* the other.
CrossedEdits ==
  \A c \in Conns : Len(edited[c]) = 1 /\ edited[c][1].seen = 0

\* C24: two clients joined to the same document that each submit one local
\* edit before receiving the other's end, once every relayed message has
\* been delivered, each with the other's content; so their local buffers
\* differ whenever the two edits differ.
C24_CrossedEditsSwap ==
  (Quiescent /\ CrossedEdits)
  => /\ replica["c1"] = edited["c2"][1].content
     /\ replica["c2"] = edited["c1"][1].content
     /\ (edited["c1"][1].content # edited["c2"][1].content
           => replica["c1"] # replica["c2"])

\* C24 witness: c1 typed "x" and c2 typed "y" before either received the
\* other's operation; all is delivered and c1 holds "y", c2 holds "x".
C24_Witness ==
  /\ Quiescent
  /\ CrossedEdits
  /\ edited["c1"][1].content = <<"x">>
  /\ edited["c2"][1].content = <<"y">>
  /\ replica["c1"] = <<"y">>
  /\ replica["c2"] = <<"x">>

\* C25: a document-operation or cursor-position message reaches members of
\* a document's room only if the sending connection is itself in that room:
\* handled for a connection that never joined the document, or has left it,
\* the message puts no event in flight to anyone.
C25_SenderInRoom ==
  [][\A c \in Conns :
       /\ \A op \in TextOperation :
            (OnOperation(c, op) /\ op.documentId \notin rooms[c]) => chan' = chan
       /\ \A d \in Docs, u \in Users, p \in Positions :
            (OnCursor(c, d, u, p) /\ d \notin rooms[c]) => chan' = chan]_vars

\* C26: whenever a client is not connected to a document after a leave, its
\* active-user list and cursor list are empty, also when presence or cursor
\* events the server emitted before it handled the leave reach the client
\* after leaveDocument() returned.
C26_EmptyWhileLeft ==
  ( /\ currentDocumentId = Null
    /\ \E i \in 1..Len(emitted) : emitted[i].event = "leave-document" )
  => activeUsers = << >> /\ cursorPositions = << >>

\* C27: on the mobile client, once DocumentScreen has joined its document
\* the client sends no leave-document and no further join-document while
\* the screen stays mounted on the same id, whatever re-renders the context
\* state changes cause.
C27_JoinStable ==
  [][(\E i \in 1..Len(emitted) : emitted[i] = JoinDocumentMsg(screenId, user))
       => emitted' = emitted]_vars

\* The span of the delete `against` covers the position of `operation`.
Covers == 
  /\ against.position <= operation.position
  /\ operation.position <= against.position + against.length

\* Every field of the transformed operation but position is as in `operation`.
OtherFieldsKept ==
  /\ DOMAIN result.value = DOMAIN operation
  /\ \A f \in DOMAIN operation \ {"position"} : result.value[f] = operation[f]

\* C28 as stated: for any pending and applied operations with non-negative
\* positions (and a positive delete length), the position of
\* transformOperation(pending, applied) is never negative; when applied is
\* a delete whose span covers pending.position the result is exactly
\* applied.position; all fields other than position are unchanged.
C28_AnyPairCovered ==
  ( /\ fn = "transformOperation"
    /\ operation.position >= 0 /\ against.position >= 0
    /\ against.type = "delete" => against.length > 0 )
  => /\ result.value.position >= 0
     /\ (against.type = "delete" /\ Covers)
          => result.value.position = against.position
     /\ OtherFieldsKept

\* C28 amended: the same, with the covered case restricted to the pairs
\* transformOperation transforms: different users, the same document, and
\* pending later than applied.
C28_TransformedCovered ==
  ( /\ fn = "transformOperation"
    /\ operation.position >= 0 /\ against.position >= 0
    /\ against.type = "delete" => against.length > 0 )
  => /\ result.value.position >= 0
     /\ ( /\ against.type = "delete" /\ Covers
          /\ Concurrent
          /\ operation.timestamp > against.timestamp )
          => result.value.position = against.position
     /\ OtherFieldsKept

\* C28 witness: a delete of 5 at 3 by another user, pending later at 6,
\* inside the span: the transformed position is 3.
C28_Witness ==
  /\ fn = "transformOperation"
  /\ against.type = "delete" /\ against.position = 3 /\ against.length = 5
  /\ operation.position = 6
  /\ Concurrent
  /\ operation.timestamp > against.timestamp
  /\ result.value.position = 3
  /\ OtherFieldsKept

\* C29: for any buffer, any position p with 0 <= p <= len(buffer) and any
\* non-empty text t, applying an insert of t at p and then a delete of
\* length len(t) at p returns the original buffer.
C29_InsertDeleteRoundTrip ==
  ( /\ fn = "insertThenDelete"
    /\ operation.position >= 0
    /\ operation.position <= Len(content) )
  => /\ against = InverseDelete(operation)
     /\ result = Returned(content)

\* C29 witness: "XY" inserted at 1 into "ab" and deleted again gives "ab".
C29_Witness ==
  /\ fn = "insertThenDelete"
  /\ content = <<"a", "b">>
  /\ operation.position = 1
  /\ operation.text = <<"X", "Y">>
  /\ against.type = "delete" /\ against.position = 1 /\ against.length = 2
  /\ result = Returned(<<"a", "b">>)

\* C30: after any sequence of createDocument, addCollaborator and
\* removeCollaborator requests by any users, every stored document's owner
\* is in its collaborators list, and the collaborators list changes only
\* through requests made by the owner.
C30_OwnerCollaborates ==
  /\ [](\A id \in DOMAIN documents :
          documents[id].owner \in Range(documents[id].collaborators))
  /\ [][\A id \in DOMAIN documents :
          documents'[id].collaborators # documents[id].collaborators
            => request'.user = documents[id].owner]_vars

====
